---------------------------- MODULE Spec2Model ----------------------------
(***************************************************************************)
(* A model of gribgrab (src/gribgrab/gribgrab.py): the retry decorator,    *)
(* IdxField, IdxCollection, the NomadsDownloader step planner, exists()    *)
(* and download().                                                         *)
(*                                                                         *)
(* Python's None is the empty tuple and a present value x is <<x>>.        *)
(* Strings that the code builds by formatting are tuples of string pieces. *)
(***************************************************************************)
EXTENDS Integers, Sequences, FiniteSets, TLC

None == << >>
Some(x) == << x >>

\* ------------------------------------------------------------------ bounds
\* Largest finite horizon passed to NomadsDownloader().
MaxHorizon == 3
\* NomadsDownloader instances constructed in one run of the process.
MaxInstances == 2
\* Planned steps, summed over the download() calls of one run of the process.
MaxPlanned == 4
\* Largest value of the concurrent= keyword a caller passes to download().
MaxConcurrent == 1
\* Invocations of the wrapped function after which one retried call is no
\* longer followed (only overlapping calls can get that far).
MaxTries == 6
\* add_idx calls made on one IdxCollection of the test bench.
MaxAdds == 3
\* Patterns added to one downloader.
MaxRegexes == 2

\* ------------------------------------------------------------- the planner
\* Python's range(a, b, s) for s > 0, as a list.
Range(a, b, s) ==
    IF b <= a THEN << >>
    ELSE [k \in 1..((b - a + s - 1) \div s) |-> a + (k - 1) * s]

VALID_RESOLUTIONS == {"0.25", "0.5", "1", "2.5"}

\* The items each chain(...) of the class attribute STEPS yields, in order.
STEPS_items(resolution) ==
    IF resolution = "0.25"
    THEN Range(0, 121, 1) \o Range(123, 241, 3) \o Range(252, 385, 12)
    ELSE Range(0, 241, 3) \o Range(252, 385, 12)

\* '{0:0.2f}'.format(resolution).replace('.', 'p')
res_str(resolution) ==
    CASE resolution = "0.25" -> "0p25"
      [] resolution = "0.5"  -> "0p50"
      [] resolution = "1"    -> "1p00"
      [] resolution = "2.5"  -> "2p50"

\* The decimal digits of n >= 0, most significant first, as strings.
RECURSIVE Digits(_)
Digits(n) == IF n < 10 THEN << ToString(n) >>
             ELSE Digits(n \div 10) \o << ToString(n % 10) >>

\* '{:0Wd}'.format(n): zero-padded on the left to at least width digits.
ZeroPad(n, width) ==
    LET d == Digits(n)
    IN  IF Len(d) >= width THEN d
        ELSE [k \in 1..(width - Len(d)) |-> "0"] \o d

\* The cycle every downloader of the model is built for (hour 00).
cycle_hr == 0

\* self.base_url, a directory URL ending in '/'.
base_url == << "http://www.ftp.ncep.noaa.gov", "//data/nccf/com/gfs/prod//gfs.cycle/" >>

\* FILE_PATTERN.format(cycle_hr=.., res_str=.., step=..)
FILE_PATTERN(resolution, step) ==
    << "gfs.t" >> \o ZeroPad(cycle_hr, 2) \o << "z.pgrb2.", res_str(resolution), ".f" >>
        \o ZeroPad(step, 3)

\* urllib.parse.urljoin(base_url, name): the name replaces the (empty) last
\* path segment of the directory URL.
urljoin(base, name) == base \o name

\* os.path.basename(url) and urlparse(url).path of a URL built by urljoin.
basename(url) == SubSeq(url, Len(base_url) + 1, Len(url))
url_path(url) == SubSeq(url, 2, Len(url))

\* Variant: min_step is not applied.
min_step_filter_off(steps, min_step) == steps

\* The list comprehensions of __init__ that filter the steps.
min_step_filter(steps, min_step) ==
    IF min_step # None
    THEN SelectSeq(steps, LAMBDA i : i % min_step[1] = 0)
    ELSE steps

horizon_filter(steps, horizon) ==
    IF horizon # None
    THEN SelectSeq(steps, LAMBDA i : i <= horizon[1])
    ELSE steps

\* list(it) of a chain iterator that has already yielded `yielded` items.
Drain(resolution, yielded) ==
    SubSeq(STEPS_items(resolution), yielded + 1, Len(STEPS_items(resolution)))

\* The instance attributes __init__ sets, given the items list(...) drew
\* from the class-level iterator.
NewDownloader(resolution, horizon, min_step, drawn) ==
    LET steps == horizon_filter(min_step_filter(drawn, min_step), horizon)
        grib_files == [k \in 1..Len(steps) |->
                          urljoin(base_url, FILE_PATTERN(resolution, steps[k]))]
    IN  [ regexes    |-> << >>,
          resolution |-> resolution,
          horizon    |-> horizon,
          min_step   |-> min_step,
          steps      |-> steps,
          grib_files |-> grib_files,
          idx_files  |-> [k \in 1..Len(steps) |-> grib_files[k] \o << ".idx" >>] ]

\* ---------------------------------------------------------------- retry
\* _attempts = 5 in retry().
_attempts == 5

\* attempts_remaining -= 1
Decrement(a) == a - 1

\* Variant: gives up one failure late (if attempts_remaining < 0).
BudgetSpent_late(a) == a < 0

\* if not attempts_remaining:
BudgetSpent(a) == a = 0

\* attempts_remaining = _attempts, after func returned.
ResetOnSuccess(a) == _attempts

\* Variant: the budget is not restored before the final failure is re-raised.
ResetOnGiveUp_missing(a) == a

\* attempts_remaining = _attempts, before the final failure is re-raised.
ResetOnGiveUp(a) == _attempts

\* -------------------------------------------------------------- exists()
\* The statuses a HEAD probe of an index URL answers with.
Statuses == {200, 404}

\* requests.head(idx).status_code != 200
ProbeFails(status) == status # 200

\* Variant: the loop is left after the first index that is there.
NextProbe_first(k, n) == n + 1

\* for idx in self.idx_files: the position probed after position k of n.
NextProbe(k, n) == k + 1

\* ------------------------------------------------------------- download()
\* if filename is not None and file_template is not None:
NamingConflict(filename, file_template) ==
    filename # None /\ file_template # None

\* Variant: download() does not look at what exists() returned.
NotAvailable_unchecked(exists_value) == FALSE

\* if not self.exists(): raise DataNotAvailableError
NotAvailable(exists_value) == ~ exists_value

\* Index of the first occurrence of x in list l (list.index).
index(l, x) == CHOOSE j \in 1..Len(l) :
                  /\ l[j] = x
                  /\ \A m \in 1..(j - 1) : l[m] # x

\* self.steps[self.grib_files.index(gribfile)]
_gribfile_to_step(inst, gribfile) == inst.steps[index(inst.grib_files, gribfile)]

\* self.cycle.strftime(file_template).format(step=step) for the template
\* 'gfs.t%Hz.{step:02d}.grb2' that demo() and the tests pass.
FormatTemplate(step) ==
    << "gfs.t" >> \o ZeroPad(cycle_hr, 2) \o << "z." >> \o ZeroPad(step, 2)
        \o << ".grb2" >>

\* The local file name download() picks for list position i.
LocalFilename(inst, i, filename, file_template) ==
    IF filename = None /\ file_template = None
    THEN basename(inst.grib_files[i])
    ELSE IF file_template = None
         THEN filename[1]
         ELSE FormatTemplate(_gribfile_to_step(inst, inst.grib_files[i]))

\* The body the server answers a ranged GET of a data URL path with.
Body(path) == << "body of" >> \o path

\* Variant: open(local_file, 'wb'), the content is dropped.
OpenAppend_truncating(fs, name) ==
    [n \in DOMAIN fs \cup {name} |-> IF n = name THEN << >> ELSE fs[n]]

\* with open(local_file, 'ab'): the file exists afterwards, content kept.
OpenAppend(fs, name) ==
    IF name \in DOMAIN fs THEN fs
    ELSE [n \in DOMAIN fs \cup {name} |-> IF n = name THEN << >> ELSE fs[n]]

\* Variant: the file is opened with 'wb', so a write replaces the content.
WriteAppended_truncating(content, body) == << body >>

\* local_grib.write(body) on a file opened in append mode.
WriteAppended(content, body) == Append(content, body)

\* Variant: what response.read() had received when it raised is written.
AfterFailedRun_partial(fs, name, outcome) ==
    IF outcome = "read"
    THEN [OpenAppend(fs, name) EXCEPT ![name] = Append(@, << "partial body" >>)]
    ELSE fs

\* The file system after a run of the undecorated _get_file that raised:
\* in response.read() the file has been opened, nothing has been written.
AfterFailedRun(fs, name, outcome) ==
    IF outcome = "read" THEN OpenAppend(fs, name) ELSE fs

\* The outcomes of one run of the undecorated _get_file: it returns, or it
\* raises in conn.request/getresponse (before the file is opened), or it
\* raises in response.read() (after the file was opened for appending).
FuncOutcomes == {"ok", "request", "read"}

\* The outcomes of urllib.request.urlopen(idx_file) in _get_idx_data.
IdxOutcomes == {"ok", "URLError"}

\* The arguments the callers of the model pass.
Filenames == {None, Some(<< "out.grb2" >>)}
Templates == {None, Some("gfs.t%Hz.{step:02d}.grb2")}
Concurrents == {None} \cup {Some(n) : n \in 1..MaxConcurrent}

\* -------------------------------------------------------------- index text
\* The text of an index file is handled character by character: a str is a
\* tuple of one-character strings.
Whitespace == {" ", "\n"}

\* str.strip(): leading and trailing whitespace removed.
RECURSIVE lstrip(_)
lstrip(s) == IF s # << >> /\ Head(s) \in Whitespace THEN lstrip(Tail(s)) ELSE s

RECURSIVE rstrip(_)
rstrip(s) ==
    IF s # << >> /\ s[Len(s)] \in Whitespace
    THEN rstrip(SubSeq(s, 1, Len(s) - 1)) ELSE s

strip(s) == rstrip(lstrip(s))

\* str.split(sep): the pieces between the separators, empty pieces included.
RECURSIVE split(_, _)
split(s, sep) ==
    IF \A k \in 1..Len(s) : s[k] # sep THEN << s >>
    ELSE LET k == CHOOSE k \in 1..Len(s) :
                      s[k] = sep /\ \A j \in 1..(k - 1) : s[j] # sep
         IN  << SubSeq(s, 1, k - 1) >> \o split(SubSeq(s, k + 1, Len(s)), sep)

\* sep.join(parts)
RECURSIVE join(_, _)
join(sep, parts) ==
    IF parts = << >> THEN << >>
    ELSE IF Len(parts) = 1 THEN parts[1]
    ELSE parts[1] \o << sep >> \o join(sep, Tail(parts))

\* What a call evaluates to: a value, or the exception it raises.
Returns(v) == [exc |-> "none", val |-> << v >>]
Raises(e) == [exc |-> e, val |-> << >>]

DigitChars == << "0", "1", "2", "3", "4", "5", "6", "7", "8", "9" >>
IsDigit(ch) == \E d \in 1..Len(DigitChars) : DigitChars[d] = ch
DigitVal(ch) == (CHOOSE d \in 1..Len(DigitChars) : DigitChars[d] = ch) - 1
AllDigits(s) == \A k \in 1..Len(s) : IsDigit(s[k])

RECURSIVE Value(_)
Value(ds) ==
    IF ds = << >> THEN 0
    ELSE 10 * Value(SubSeq(ds, 1, Len(ds) - 1)) + DigitVal(ds[Len(ds)])

\* int(text): surrounding whitespace and a sign are accepted, leading zeros
\* too; anything else raises ValueError.
int(text) ==
    LET t == strip(text)
        signed == t # << >> /\ t[1] \in {"+", "-"}
        ds == IF signed THEN Tail(t) ELSE t
    IN  IF ds = << >> \/ ~ AllDigits(ds) THEN Raises("ValueError")
        ELSE Returns(IF signed /\ t[1] = "-" THEN 0 - Value(ds) ELSE Value(ds))

\* str(n) of an int.
str_int(n) == IF n < 0 THEN << "-" >> \o Digits(0 - n) ELSE Digits(n)

\* datetime.strptime(text, '%Y%m%d%H'). The regular expression _strptime
\* builds for the format is Y: \d\d\d\d, m: 1[0-2]|0[1-9]|[1-9],
\* d: 3[0-1]|[1-2]\d|0[1-9]|[1-9], H: 2[0-3]|[0-1]\d|\d, matched against a
\* prefix of the text with the alternatives tried in that order; text left
\* over after the match, and a day the month does not have, raise ValueError.
FieldWidths ==
    << << 2, 2, 2 >>, << 2, 2, 1 >>, << 2, 1, 2 >>, << 2, 1, 1 >>,
       << 1, 2, 2 >>, << 1, 2, 1 >>, << 1, 1, 2 >>, << 1, 1, 1 >> >>

FieldAt(s, from, width) == Value(SubSeq(s, from, from + width - 1))

DateFields(s, w) ==
    [Y |-> FieldAt(s, 1, 4), m |-> FieldAt(s, 5, w[1]),
     d |-> FieldAt(s, 5 + w[1], w[2]), H |-> FieldAt(s, 5 + w[1] + w[2], w[3])]

WidthsMatch(s, w) ==
    /\ Len(s) >= 4 + w[1] + w[2] + w[3]
    /\ AllDigits(SubSeq(s, 1, 4 + w[1] + w[2] + w[3]))
    /\ LET f == DateFields(s, w)
       IN  /\ f.m \in 1..(IF w[1] = 2 THEN 12 ELSE 9)
           /\ f.d \in 1..(IF w[2] = 2 THEN 31 ELSE 9)
           /\ f.H \in 0..(IF w[3] = 2 THEN 23 ELSE 9)

IsLeap(y) == y % 4 = 0 /\ (y % 100 # 0 \/ y % 400 = 0)

DaysInMonth(y, m) ==
    IF m = 2 THEN (IF IsLeap(y) THEN 29 ELSE 28)
    ELSE IF m \in {4, 6, 9, 11} THEN 30 ELSE 31

strptime(s) ==
    IF \A n \in 1..Len(FieldWidths) : ~ WidthsMatch(s, FieldWidths[n])
    THEN Raises("ValueError")
    ELSE LET n == CHOOSE n \in 1..Len(FieldWidths) :
                      /\ WidthsMatch(s, FieldWidths[n])
                      /\ \A k \in 1..(n - 1) : ~ WidthsMatch(s, FieldWidths[k])
             w == FieldWidths[n]
             f == DateFields(s, w)
         IN  IF Len(s) # 4 + w[1] + w[2] + w[3] THEN Raises("ValueError")
             ELSE IF f.Y < 1 \/ f.d > DaysInMonth(f.Y, f.m)
             THEN Raises("ValueError")
             ELSE Returns(f)

\* reftime.strftime('d=%Y%m%d%H'), for years of four digits.
strftime(reftime) ==
    << "d", "=" >> \o ZeroPad(reftime.Y, 4) \o ZeroPad(reftime.m, 2)
        \o ZeroPad(reftime.d, 2) \o ZeroPad(reftime.H, 2)

\* IdxField(idx_line): the object built, or the exception __init__ raises
\* (ValueError from int() and strptime(), IndexError from a missing piece).
IdxField__init__(idx_line) ==
    LET idx_data == split(strip(idx_line), ":")
        n == Len(idx_data)
        index_ == int(idx_data[1])
        bytes_start_ == int(idx_data[2])
        eq == split(idx_data[3], "=")
        reftime_ == strptime(eq[2])
    IN  IF index_.exc # "none" THEN Raises(index_.exc)
        ELSE IF n < 2 THEN Raises("IndexError")
        ELSE IF bytes_start_.exc # "none" THEN Raises(bytes_start_.exc)
        ELSE IF n < 3 \/ Len(eq) < 2 THEN Raises("IndexError")
        ELSE IF reftime_.exc # "none" THEN Raises(reftime_.exc)
        ELSE IF n < 6 THEN Raises("IndexError")
        ELSE Returns([index |-> index_.val[1],
                      bytes_start |-> bytes_start_.val[1],
                      reftime |-> reftime_.val[1],
                      varname |-> idx_data[4],
                      level |-> idx_data[5],
                      interval |-> idx_data[6]])

\* The six fields __str__ joins.
StrFields(idx) ==
    << str_int(idx.index), str_int(idx.bytes_start), strftime(idx.reftime),
       idx.varname, idx.level, idx.interval >>

\* IdxField.__str__ of the package: the fields joined by ':' and a closing ':'.
IdxField__str__(idx) == join(":", StrFields(idx)) \o << ":" >>

\* IdxField.__str__ of the single-file module src/gribgrab.py.
IdxField__str__module(idx) == join(":", StrFields(idx))

\* ------------------------------------------------------------ IdxCollection
\* A dict is the list of its (key, value) pairs in insertion order.
DictHas(d, key) == \E j \in 1..Len(d) : d[j][1] = key
DictGet(d, key) == d[CHOOSE j \in 1..Len(d) : d[j][1] = key][2]
DictValues(d) == [j \in 1..Len(d) |-> d[j][2]]

\* Variant: d.setdefault(key, value), the first value of a key stays.
DictSet_first_wins(d, key, value) ==
    IF DictHas(d, key) THEN d ELSE Append(d, << key, value >>)

\* d[key] = value: a key already present keeps its place and gets the value.
DictSet(d, key, value) ==
    IF DictHas(d, key)
    THEN [j \in 1..Len(d) |-> IF d[j][1] = key THEN << key, value >> ELSE d[j]]
    ELSE Append(d, << key, value >>)

\* IdxCollection(): two empty dicts. IdxField defines no __eq__/__hash__, so
\* idx_to_i is keyed by object identity: every IdxField object ever added
\* has its own entry, in the order of the add_idx calls.
IdxCollection == [i_to_idx |-> << >>, idx_to_i |-> << >>]

add_idx(c, idx) ==
    [i_to_idx |-> DictSet(c.i_to_idx, idx.index, idx),
     idx_to_i |-> Append(c.idx_to_i, << idx, idx.index >>)]

\* The end of a byte range: << n >> for the int n, << >> for the str ''.
OpenEnd == << >>

\* Variant: the range ends where the record added next begins.
byterange_next_added(c, idx) ==
    LET vs == DictValues(c.i_to_idx)
        after == { j \in 2..Len(vs) : vs[j - 1] = idx }
    IN  << idx.bytes_start,
           IF after # {} THEN << vs[CHOOSE j \in after : TRUE].bytes_start - 1 >>
           ELSE OpenEnd >>

\* IdxCollection.byterange(idx): KeyError of the lookup becomes ''.
byterange(c, idx) ==
    << idx.bytes_start,
       IF DictHas(c.i_to_idx, idx.index + 1)
       THEN << DictGet(c.i_to_idx, idx.index + 1).bytes_start - 1 >>
       ELSE OpenEnd >>

\* The patterns the callers of the model use, and what re.compile() makes
\* of each: text to match literally (str), '.' (any), a sequence (seq), an
\* alternation (alt), and the repetitions '*' (star) and '+' (plus).
Re(op, s, subs) == [op |-> op, s |-> s, subs |-> subs]
ReStr(s) == Re("str", s, << >>)
ReDotStar == Re("star", << >>, << Re("any", << >>, << >>) >>)
Word_PRES == << "P", "R", "E", "S" >>
Word_GUST == << "G", "U", "S", "T" >>

Patterns == {".*PRES.*", ".*(PRES|GUST)+:.*", ".*(GUST|PRES)+:.*", "PRES"}

re_compile(regex) ==
    CASE regex = ".*PRES.*" ->
            Re("seq", << >>, << ReDotStar, ReStr(Word_PRES), ReDotStar >>)
      [] regex = ".*(PRES|GUST)+:.*" ->
            Re("seq", << >>,
               << ReDotStar,
                  Re("plus", << >>,
                     << Re("alt", << >>, << ReStr(Word_PRES), ReStr(Word_GUST) >>) >>),
                  ReStr(<< ":" >>), ReDotStar >>)
      [] regex = ".*(GUST|PRES)+:.*" ->
            Re("seq", << >>,
               << ReDotStar,
                  Re("plus", << >>,
                     << Re("alt", << >>, << ReStr(Word_GUST), ReStr(Word_PRES) >>) >>),
                  ReStr(<< ":" >>), ReDotStar >>)
      [] regex = "PRES" -> ReStr(Word_PRES)

\* The positions of s at which a match of r can end when it starts at one
\* of the positions in from (a position is the number of characters before
\* it).
RECURSIVE Ends(_, _, _)
RECURSIVE StarEnds(_, _, _)
Ends(r, s, from) ==
    CASE r.op = "str" ->
            { p + Len(r.s) : p \in { q \in from :
                  /\ q + Len(r.s) <= Len(s)
                  /\ SubSeq(s, q + 1, q + Len(r.s)) = r.s } }
      [] r.op = "any" ->
            { p + 1 : p \in { q \in from : q < Len(s) /\ s[q + 1] # "\n" } }
      [] r.op = "seq" ->
            IF r.subs = << >> THEN from
            ELSE Ends([r EXCEPT !.subs = Tail(r.subs)], s,
                      Ends(Head(r.subs), s, from))
      [] r.op = "alt" ->
            UNION { Ends(r.subs[k], s, from) : k \in 1..Len(r.subs) }
      [] r.op = "star" -> StarEnds(r.subs[1], s, from)
      [] r.op = "plus" -> StarEnds(r.subs[1], s, Ends(r.subs[1], s, from))

StarEnds(r, s, from) ==
    LET more == Ends(r, s, from) \ from
    IN  IF more = {} THEN from ELSE from \cup StarEnds(r, s, more)

\* Variant: compiled.search(s), a match may start anywhere in s.
re_match_anywhere(compiled, s) == Ends(compiled, s, 0..Len(s)) # {}

\* compiled.match(s) is not None: a match that starts at the start of s.
re_match(compiled, s) == Ends(compiled, s, {0}) # {}

\* IdxCollection.filter(regex)
filter(c, regex) ==
    SelectSeq(DictValues(c.i_to_idx),
              LAMBDA idx : re_match(re_compile(regex), IdxField__str__(idx)))

\* ------------------------------------------------------------- index lines
\* The three records of IdxCollectionTestCase.setUp ...
Line_GUST ==
    << "1", ":", "0", ":", "d", "=", "1", "9", "9", "5", "1", "0", "3", "0", "0", "0", ":", "G", "U", "S", "T", ":", "s", "u", "r", "f", "a", "c", "e", ":", "1", "6", "5", " ", "h", "o", "u", "r", " ", "f", "c", "s", "t", ":" >>
Line_MSLET ==
    << "2", ":", "7", "3", "5", "7", "3", ":", "d", "=", "1", "9", "9", "5", "1", "0", "3", "0", "0", "0", ":", "M", "S", "L", "E", "T", ":", "m", "e", "a", "n", " ", "s", "e", "a", " ", "l", "e", "v", "e", "l", ":", "1", "6", "5", " ", "h", "o", "u", "r", " ", "f", "c", "s", "t", ":" >>
Line_PRES ==
    << "3", ":", "2", "6", "3", "1", "1", "8", ":", "d", "=", "1", "9", "9", "5", "1", "0", "3", "0", "0", "0", ":", "P", "R", "E", "S", ":", "s", "u", "r", "f", "a", "c", "e", ":", "1", "6", "5", " ", "h", "o", "u", "r", " ", "f", "c", "s", "t", ":" >>
\* ... and the record of IdxFieldTestCase.setUp.
Line_UGRD ==
    << "6", ":", "6", "3", "7", "8", "1", "6", ":", "d", "=", "1", "9", "9", "5", "1", "0", "3", "0", "0", "0", ":", "U", "G", "R", "D", ":", "3", "0", " ", "m", " ", "a", "b", "o", "v", "e", " ", "g", "r", "o", "u", "n", "d", ":", "1", "6", "5", " ", "h", "o", "u", "r", " ", "f", "c", "s", "t", ":" >>
\* A record that reuses ordinal 2.
Line_PRES_at_2 ==
    << "2", ":", "8", "0", "0", "0", "0", ":", "d", "=", "1", "9", "9", "5", "1", "0", "3", "0", "0", "0", ":", "P", "R", "E", "S", ":", "m", "e", "a", "n", " ", "s", "e", "a", " ", "l", "e", "v", "e", "l", ":", "1", "6", "5", " ", "h", "o", "u", "r", " ", "f", "c", "s", "t", ":" >>
\* Five fields, each closed by its colon: the interval is missing.
Line_five_fields ==
    << "4", ":", "3", "0", "0", "0", "0", "0", ":", "d", "=", "1", "9", "9", "5", "1", "0", "3", "0", "0", "0", ":", "G", "U", "S", "T", ":", "s", "u", "r", "f", "a", "c", "e", ":" >>
\* A line cut off inside its fifth field.
Line_cut_short ==
    << "1", ":", "0", ":", "d", "=", "1", "9", "9", "5", "1", "0", "3", "0", "0", "0", ":", "G", "U", "S", "T", ":", "s", "u", "r", "f" >>

\* The texts the lines of the IdxField test bench are put together from:
\* ordinals (6, with a leading zero, with a leading blank, no number), byte
\* offsets (the last one empty), reference times (as documented, hour 24,
\* 8 digits, no 'd='), and what follows the reference time (three fields,
\* two fields, a line cut short, three fields and the newline of the file).
OrdinalTexts == { << "6" >>, << "0", "6" >>, << " ", "6" >>, << "x" >> }
OffsetTexts == { << "6", "3", "7", "8", "1", "6" >>, << "0" >>, << >> }
ReftimeTexts ==
    { << "d", "=", "1", "9", "9", "5", "1", "0", "3", "0", "0", "0" >>,
      << "d", "=", "1", "9", "9", "5", "1", "0", "3", "0", "2", "4" >>,
      << "d", "=", "1", "9", "9", "5", "1", "0", "3", "0" >>,
      << "1", "9", "9", "5", "1", "0", "3", "0", "0", "0" >> }
RestTexts ==
    { << "U", "G", "R", "D", ":", "3", "0", " ", "m", " ", "a", "b", "o", "v", "e", " ", "g", "r", "o", "u", "n", "d", ":", "1", "6", "5", " ", "h", "o", "u", "r", " ", "f", "c", "s", "t", ":" >>,
      << "U", "G", "R", "D", ":", "3", "0", " ", "m", " ", "a", "b", "o", "v", "e", " ", "g", "r", "o", "u", "n", "d", ":" >>,
      << "U", "G", "R", "D", ":", "3", "0", " ", "m", " ", "a", "b" >>,
      << "U", "G", "R", "D", ":", "3", "0", " ", "m", " ", "a", "b", "o", "v", "e", " ", "g", "r", "o", "u", "n", "d", ":", "1", "6", "5", " ", "h", "o", "u", "r", " ", "f", "c", "s", "t", ":", "\n" >> }

\* The index files the archive of the model can answer an index GET with,
\* as response.readlines() returns them (every line ends in '\n'): the
\* index of the tests; one whose second line reuses ordinal 2; one with a
\* line of five fields; one with a line cut short.
Readlines(text_lines) == [j \in 1..Len(text_lines) |-> text_lines[j] \o << "\n" >>]

Indexes ==
    << Readlines(<< Line_GUST, Line_MSLET, Line_PRES >>),
       Readlines(<< Line_MSLET, Line_PRES_at_2, Line_PRES >>),
       Readlines(<< Line_GUST, Line_five_fields >>),
       Readlines(<< Line_GUST, Line_cut_short, Line_PRES >>) >>

\* The index every step has in the runs that do not look at the ranges.
PlainIndex == CHOOSE k \in 1..Len(Indexes) : \A j \in 1..Len(Indexes) : k <= j

\* _get_idx_data(): the loop `for i in idx_lines: c.add_idx(IdxField(...))`
\* over the lines read; the first line IdxField() rejects ends it.
RECURSIVE AddLines(_, _)
AddLines(c, idx_lines) ==
    IF idx_lines = << >> THEN Returns(c)
    ELSE LET made == IdxField__init__(Head(idx_lines))
         IN  IF made.exc # "none" THEN Raises(made.exc)
             ELSE AddLines(add_idx(c, made.val[1]), Tail(idx_lines))

_get_idx_data(idx_lines) == AddLines(IdxCollection, idx_lines)

\* download(): the ranges of the matches of one pattern, in filter's order.
RangesOf(c, regex) ==
    LET idx_list == filter(c, regex)
    IN  [j \in 1..Len(idx_list) |-> byterange(c, idx_list[j])]

\* Variant: a record matched by several patterns is requested once.
byte_ranges_distinct(c, regexes) ==
    LET matched == SelectSeq(DictValues(c.i_to_idx),
                       LAMBDA idx : \E k \in 1..Len(regexes) :
                           re_match(re_compile(regexes[k]), IdxField__str__(idx)))
    IN  [j \in 1..Len(matched) |-> byterange(c, matched[j])]

\* download(): byte_ranges after `for regex in self.regexes: ...`.
RECURSIVE byte_ranges(_, _)
byte_ranges(c, regexes) ==
    IF regexes = << >> THEN << >>
    ELSE RangesOf(c, Head(regexes)) \o byte_ranges(c, Tail(regexes))

\* str(i[1]) of a range end.
str_end(bytes_end) == IF bytes_end = OpenEnd THEN << >> ELSE str_int(bytes_end[1])

\* 'bytes={}'.format(','.join([str(i[0]) + '-' + str(i[1]) for i in byte_ranges]))
byte_header(ranges) ==
    << "b", "y", "t", "e", "s", "=" >>
        \o join(",", [j \in 1..Len(ranges) |->
                         str_int(ranges[j][1]) \o << "-" >> \o str_end(ranges[j][2])])

\* add_regex(regex) and add_regexes(regexes) on a downloader.
add_regex(inst, regex) == [inst EXCEPT !.regexes = Append(@, regex)]

RECURSIVE add_regexes(_, _)
add_regexes(inst, regexes) ==
    IF regexes = << >> THEN inst
    ELSE add_regexes(add_regex(inst, Head(regexes)), Tail(regexes))


\* The threads of the process; the main thread is the first.
Threads == {1, 2}
MainThread == CHOOSE t \in Threads : \A u \in Threads : t <= u

VARIABLES
    STEPS,               \* class attribute: resolution -> items its iterator has yielded
    insts,               \* the NomadsDownloader instances constructed so far
    attempts_remaining,  \* the nonlocal of retry() shared by every _get_file call
    files,               \* local file system: name -> list of the bodies written
    call,                \* per thread: the exists()/download() call it is in
    planned,             \* planned steps of the download() calls made so far
    prev_fetch,          \* how the latest finished _get_file call ended
    idx_collection,      \* test bench: the IdxCollection under test
    last                 \* test bench: the latest call made and its outcome

vars == << STEPS, insts, attempts_remaining, files, call, planned, prev_fetch,
          idx_collection, last >>

\* The test bench before its first call.
NoCall == [op |-> "none", by |-> "", arg |-> << >>, exc |-> "none", out |-> << >>]

\* A thread that is in no call.
IdleCall ==
    [ op |-> "none", pc |-> "idle", self |-> 0,
      filename |-> None, file_template |-> None, concurrent |-> None,
      head |-> << >>,          \* status each planned index URL answers a HEAD with
      k |-> 0,                 \* exists(): position in idx_files
      exists_value |-> None,   \* what exists() returned
      i |-> 0,                 \* download(): position in idx_files
      _filename |-> << >>,     \* download(): local file of the current step
      loaded |-> 0,            \* value read for attempts_remaining -= 1
      tries |-> 0,             \* runs of func in the current _get_file call
      fails |-> 0,             \* of which raised
      gf |-> "none",           \* the current/last _get_file call: running, returned, raised
      result |-> "none",       \* how the call ended
      nHead |-> 0, nIdxGet |-> 0,   \* HEAD probes and index GETs issued by the call
      got |-> {},              \* positions whose data GET the call has issued
      served |-> 0,            \* which of Indexes the current step's index GET got
      byte_header |-> << >>,   \* download(): the Range value of the current step
      sent |-> {},             \* (path, Range value) of the current step's GETs
      pre |-> << >> ]          \* the file system when the call started

Self(t) == insts[call[t].self]
Plan(t) == Self(t).idx_files

Init ==
    /\ STEPS = [r \in VALID_RESOLUTIONS |-> 0]
    /\ insts = << >>
    /\ attempts_remaining = _attempts
    /\ files = << >>
    /\ call = [t \in Threads |-> IdleCall]
    /\ planned = 0
    /\ prev_fetch = "none"
    /\ idx_collection = IdxCollection
    /\ last = NoCall

\* NomadsDownloader(cycle, horizon, resolution, min_step) with a valid
\* resolution: list(STEPS[resolution]) drains the shared iterator.
Construct(t, resolution, horizon, min_step) ==
    /\ call[t].pc = "idle"
    /\ Len(insts) < MaxInstances
    /\ insts' = Append(insts, NewDownloader(resolution, horizon, min_step,
                                             Drain(resolution, STEPS[resolution])))
    /\ STEPS' = [STEPS EXCEPT ![resolution] = Len(STEPS_items(resolution))]
    /\ UNCHANGED << attempts_remaining, files, call, planned, prev_fetch,
                    idx_collection, last >>

\* What follows the return of self.exists() with value v in thread t.
AfterExists(c, v) ==
    IF c.op = "exists"
    THEN [c EXCEPT !.exists_value = Some(v), !.pc = "done",
                   !.result = IF v THEN "True" ELSE "False"]
    ELSE IF NotAvailable(v)
    THEN [c EXCEPT !.exists_value = Some(v), !.pc = "done",
                   !.result = "DataNotAvailableError"]
    ELSE IF NamingConflict(c.filename, c.file_template)
    THEN [c EXCEPT !.exists_value = Some(v), !.pc = "done", !.result = "ValueError"]
    ELSE [c EXCEPT !.exists_value = Some(v), !.pc = "loop", !.i = 1]

\* dl.exists() is called.
ExistsCall(t, s, head) ==
    /\ call[t].pc = "idle"
    /\ s \in 1..Len(insts)
    /\ call' = [call EXCEPT ![t] =
                  [IdleCall EXCEPT !.op = "exists", !.pc = "exists", !.self = s,
                                   !.head = head, !.k = 1, !.pre = files]]
    /\ UNCHANGED << STEPS, insts, attempts_remaining, files, planned, prev_fetch,
                    idx_collection, last >>

\* dl.download(filename=.., file_template=.., [concurrent=..]) is called.
\* download() declares no parameter named concurrent: passing it raises
\* TypeError when the arguments are bound, before the body runs.
DownloadCall(t, s, filename, file_template, concurrent, head) ==
    /\ call[t].pc = "idle"
    /\ s \in 1..Len(insts)
    /\ planned + Len(insts[s].steps) <= MaxPlanned
    /\ planned' = planned + Len(insts[s].steps)
    /\ LET c == [IdleCall EXCEPT !.op = "download", !.self = s,
                                 !.filename = filename,
                                 !.file_template = file_template,
                                 !.concurrent = concurrent, !.pre = files]
       IN  call' = [call EXCEPT ![t] =
                IF concurrent # None
                THEN [c EXCEPT !.pc = "done", !.result = "TypeError"]
                ELSE [c EXCEPT !.pc = "exists", !.head = head, !.k = 1]]
    /\ UNCHANGED << STEPS, insts, attempts_remaining, files, prev_fetch,
                    idx_collection, last >>

\* exists(): one turn of the loop, requests.head(idx) of the next index URL.
ExistsProbe(t) ==
    LET c == call[t]
        p == [c EXCEPT !.nHead = c.nHead + 1]
    IN  /\ c.pc = "exists"
        /\ c.k <= Len(Plan(t))
        /\ call' = [call EXCEPT ![t] =
                      IF ProbeFails(c.head[c.k])
                      THEN AfterExists(p, FALSE)
                      ELSE [p EXCEPT !.k = NextProbe(c.k, Len(Plan(t)))]]
        /\ UNCHANGED << STEPS, insts, attempts_remaining, files, planned, prev_fetch,
                    idx_collection, last >>

\* Variant: exists() is true only when some probe has answered.
AfterLoopValue_probed(nHead) == nHead > 0

\* exists(): what is returned when the for loop has ended without a return
\* (return True), however many turns it took.
AfterLoopValue(nHead) == TRUE

\* exists(): the loop is over, return True.
ExistsAll(t) ==
    LET c == call[t]
    IN  /\ c.pc = "exists"
        /\ c.k > Len(Plan(t))
        /\ call' = [call EXCEPT ![t] = AfterExists(c, AfterLoopValue(c.nHead))]
        /\ UNCHANGED << STEPS, insts, attempts_remaining, files, planned, prev_fetch,
                    idx_collection, last >>

\* download(): the head of the for loop; picks the local file name.
LoopNext(t) ==
    LET c == call[t]
    IN  /\ c.pc = "loop"
        /\ call' = [call EXCEPT ![t] =
                      IF c.i > Len(Plan(t))
                      THEN [c EXCEPT !.pc = "done", !.result = "returned"]
                      ELSE [c EXCEPT !.pc = "get_idx",
                                     !._filename = LocalFilename(Self(t), c.i,
                                                     c.filename, c.file_template)]]
        /\ UNCHANGED << STEPS, insts, attempts_remaining, files, planned, prev_fetch,
                    idx_collection, last >>

\* Variant: a failed urlopen of the index is tried once more.
OnIdxError_again(c, exc) ==
    IF c.nIdxGet <= c.i THEN [c EXCEPT !.pc = "get_idx"]
    ELSE [c EXCEPT !.pc = "done", !.result = exc]

\* download(): urllib.request.urlopen(idx_file) raised in _get_idx_data,
\* which is not decorated with @retry; nothing in download() catches the
\* exception, so it leaves download() at this step.
OnIdxError(c, exc) == [c EXCEPT !.pc = "done", !.result = exc]

\* download(): self._get_idx_data(idx_file), not under retry, is answered
\* with index k (or urlopen raises); the Range value is built from the
\* matches; then self._get_file(...) is called and the wrapper `inner` is
\* entered.
GetIdxData(t, outcome, k) ==
    LET c == call[t]
        g == [c EXCEPT !.nIdxGet = c.nIdxGet + 1]
        idx_collection_ == _get_idx_data(Indexes[k])
    IN  /\ c.pc = "get_idx"
        /\ call' = [call EXCEPT ![t] =
                      IF outcome # "ok"
                      THEN OnIdxError(g, outcome)
                      ELSE IF idx_collection_.exc # "none"
                      THEN [g EXCEPT !.pc = "done", !.served = k,
                                     !.result = idx_collection_.exc]
                      ELSE [g EXCEPT !.pc = "inner", !.tries = 0, !.fails = 0,
                                     !.gf = "running", !.served = k,
                                     !.byte_header =
                                         byte_header(byte_ranges(
                                             idx_collection_.val[1],
                                             Self(t).regexes)),
                                     !.sent = {}]]
        /\ UNCHANGED << STEPS, insts, attempts_remaining, files, planned, prev_fetch,
                    idx_collection, last >>

\* inner(): result = func(*args, **kwargs) starts; conn.request('GET', ...)
\* is called with the Range value download() passed to _get_file.
FuncCall(t) ==
    LET c == call[t]
    IN  /\ c.pc = "inner"
        /\ c.tries < MaxTries
        /\ call' = [call EXCEPT ![t] =
                      [c EXCEPT !.pc = "func", !.tries = c.tries + 1,
                                !.got = c.got \cup {c.i},
                                !.sent = c.sent \cup
                                    {<< url_path(Self(t).grib_files[c.i]),
                                        c.byte_header >>}]]
        /\ UNCHANGED << STEPS, insts, attempts_remaining, files, planned, prev_fetch,
                    idx_collection, last >>

\* The undecorated _get_file ends: it wrote the body, or it raised.
FuncEnd(t, outcome) ==
    LET c == call[t]
        path == url_path(Self(t).grib_files[c.i])
        opened == OpenAppend(files, c._filename)
    IN  /\ c.pc = "func"
        /\ IF outcome = "ok"
           THEN /\ files' = [opened EXCEPT ![c._filename] =
                                WriteAppended(opened[c._filename], Body(path))]
                /\ call' = [call EXCEPT ![t] = [c EXCEPT !.pc = "succeeded"]]
           ELSE /\ files' = AfterFailedRun(files, c._filename, outcome)
                /\ call' = [call EXCEPT ![t] =
                              [c EXCEPT !.pc = "except", !.fails = c.fails + 1]]
        /\ UNCHANGED << STEPS, insts, attempts_remaining, planned, prev_fetch,
                    idx_collection, last >>

\* Variant: the loop leaves out the step after the one just fetched.
AfterFetch_skipping(c) == [c EXCEPT !.pc = "loop", !.i = c.i + 2, !.gf = "returned"]

\* download(): self._get_file(...) returned; the for loop takes the next
\* (i, idx_file) of enumerate(self.idx_files).
AfterFetch(c) == [c EXCEPT !.pc = "loop", !.i = c.i + 1, !.gf = "returned"]

\* inner(): attempts_remaining = _attempts; return result. download() goes
\* on to the next turn of its loop.
InnerReturn(t) ==
    LET c == call[t]
    IN  /\ c.pc = "succeeded"
        /\ attempts_remaining' = ResetOnSuccess(attempts_remaining)
        /\ call' = [call EXCEPT ![t] = AfterFetch(c)]
        /\ prev_fetch' = "returned"
        /\ UNCHANGED << STEPS, insts, files, planned,
                    idx_collection, last >>

\* inner(), except Exception: attempts_remaining -= 1 reads the nonlocal ...
ExceptLoad(t) ==
    LET c == call[t]
    IN  /\ c.pc = "except"
        /\ call' = [call EXCEPT ![t] =
                      [c EXCEPT !.pc = "store", !.loaded = attempts_remaining]]
        /\ UNCHANGED << STEPS, insts, attempts_remaining, files, planned, prev_fetch,
                    idx_collection, last >>

\* ... and stores the decremented value.
ExceptStore(t) ==
    LET c == call[t]
    IN  /\ c.pc = "store"
        /\ attempts_remaining' = Decrement(c.loaded)
        /\ call' = [call EXCEPT ![t] = [c EXCEPT !.pc = "test", !.loaded = 0]]
        /\ UNCHANGED << STEPS, insts, files, planned, prev_fetch,
                    idx_collection, last >>

\* inner(): if not attempts_remaining: ... else the while loop goes round.
ExceptTest(t) ==
    LET c == call[t]
    IN  /\ c.pc = "test"
        /\ call' = [call EXCEPT ![t] =
                      [c EXCEPT !.pc = IF BudgetSpent(attempts_remaining)
                                       THEN "giveup" ELSE "inner"]]
        /\ UNCHANGED << STEPS, insts, attempts_remaining, files, planned, prev_fetch,
                    idx_collection, last >>

\* Variant: the loop swallows the exception and goes on with the next step.
OnFetchError_continue(c) == [c EXCEPT !.pc = "loop", !.i = c.i + 1]

\* download(): the call self._get_file(...) raised. Nothing in the loop
\* catches the exception, so it leaves download() at this step.
OnFetchError(c) == [c EXCEPT !.pc = "done", !.result = "FetchError"]

\* inner(): attempts_remaining = _attempts; raise.
ExceptRaise(t) ==
    LET c == call[t]
    IN  /\ c.pc = "giveup"
        /\ attempts_remaining' = ResetOnGiveUp(attempts_remaining)
        /\ call' = [call EXCEPT ![t] = OnFetchError([c EXCEPT !.gf = "raised"])]
        /\ prev_fetch' = "raised"
        /\ UNCHANGED << STEPS, insts, files, planned,
                    idx_collection, last >>

\* The caller has the return value or the exception; the frame is gone.
CallEnds(t) ==
    /\ call[t].pc = "done"
    /\ call' = [call EXCEPT ![t] = IdleCall]
    /\ UNCHANGED << STEPS, insts, attempts_remaining, files, planned, prev_fetch,
                    idx_collection, last >>

\* The (resolution, horizon, min_step) NomadsDownloader() is constructed with.
ConstructArgs == { << "0.25", Some(MaxHorizon), None >>,
                   << "0.5", Some(MaxHorizon), Some(3) >> }

HeadAnswers(s) == [1..Len(insts[s].idx_files) -> Statuses]

\* One step of thread t.
Step(t) ==
    \/ \E s \in 1..Len(insts) : \E head \in HeadAnswers(s) : ExistsCall(t, s, head)
    \/ \E s \in 1..Len(insts), fn \in Filenames, tpl \in Templates :
          \E head \in HeadAnswers(s) : DownloadCall(t, s, fn, tpl, None, head)
    \/ \E s \in 1..Len(insts), tpl \in Templates \ {None},
          conc \in Concurrents \ {None} :
          DownloadCall(t, s, None, tpl, conc, << >>)
    \/ ExistsProbe(t)
    \/ ExistsAll(t)
    \/ LoopNext(t)
    \/ \E o \in IdxOutcomes : GetIdxData(t, o, PlainIndex)
    \/ FuncCall(t)
    \/ \E o \in FuncOutcomes : FuncEnd(t, o)
    \/ InnerReturn(t)
    \/ ExceptLoad(t)
    \/ ExceptStore(t)
    \/ ExceptTest(t)
    \/ ExceptRaise(t)
    \/ CallEnds(t)

Constructs(t, args) ==
    \E a \in args : Construct(t, a[1], a[2], a[3])

\* A single-threaded program: every call is made from the main thread.
Next == Constructs(MainThread, ConstructArgs) \/ Step(MainThread)

Spec == Init /\ [][Next]_vars

\* A program whose main thread constructs downloaders of one planned step
\* and whose threads then each make one download() call with the default
\* naming, against an archive that has every index; a fetch that fails
\* fails in conn.request.
ThreadConstructArgs == { << "1", Some(0), None >>, << "2.5", Some(0), None >> }

AllThere(s) == [j \in 1..Len(insts[s].idx_files) |-> 200]

ThreadStep(t) ==
    \/ \E s \in 1..Len(insts) : DownloadCall(t, s, None, None, None, AllThere(s))
    \/ ExistsProbe(t)
    \/ ExistsAll(t)
    \/ LoopNext(t)
    \/ GetIdxData(t, "ok", PlainIndex)
    \/ FuncCall(t)
    \/ \E o \in {"ok", "request"} : FuncEnd(t, o)
    \/ InnerReturn(t)
    \/ ExceptLoad(t)
    \/ ExceptStore(t)
    \/ ExceptTest(t)
    \/ ExceptRaise(t)

NextThreads ==
    \/ Constructs(MainThread, ThreadConstructArgs)
    \/ \E t \in Threads : ThreadStep(t)

SpecThreads == Init /\ [][NextThreads]_vars

\* A program that constructs one downloader, adds patterns to it and makes
\* one download() call with the default naming against an archive that has
\* every index file; an index GET is answered with any of the indexes, and
\* a fetch that fails fails in response.read().
RangesConstructArgs == { << "1", Some(MaxHorizon), None >> }

RangePatterns == {".*PRES.*", ".*(PRES|GUST)+:.*"}
PatternPairs == { << ".*PRES.*", ".*(PRES|GUST)+:.*" >>, << "PRES", ".*PRES.*" >> }

\* dl.add_regex(regex)
AddRegex(t, s, regex) ==
    /\ call[t].pc = "idle"
    /\ s \in 1..Len(insts)
    /\ Len(insts[s].regexes) < MaxRegexes
    /\ insts' = [insts EXCEPT ![s] = add_regex(insts[s], regex)]
    /\ UNCHANGED << STEPS, attempts_remaining, files, call, planned, prev_fetch, idx_collection, last >>

\* dl.add_regexes(regexes)
AddRegexes(t, s, regexes) ==
    /\ call[t].pc = "idle"
    /\ s \in 1..Len(insts)
    /\ Len(insts[s].regexes) + Len(regexes) <= MaxRegexes
    /\ insts' = [insts EXCEPT ![s] = add_regexes(insts[s], regexes)]
    /\ UNCHANGED << STEPS, attempts_remaining, files, call, planned, prev_fetch, idx_collection, last >>

RangesStep(t) ==
    \/ \E s \in 1..Len(insts), regex \in RangePatterns : AddRegex(t, s, regex)
    \/ \E s \in 1..Len(insts), regexes \in PatternPairs : AddRegexes(t, s, regexes)
    \/ \E s \in 1..Len(insts) : DownloadCall(t, s, None, None, None, AllThere(s))
    \/ ExistsProbe(t)
    \/ ExistsAll(t)
    \/ LoopNext(t)
    \/ \E k \in 1..Len(Indexes) : GetIdxData(t, "ok", k)
    \/ FuncCall(t)
    \/ \E o \in {"ok", "read"} : FuncEnd(t, o)
    \/ InnerReturn(t)
    \/ ExceptLoad(t)
    \/ ExceptStore(t)
    \/ ExceptTest(t)
    \/ ExceptRaise(t)

NextRanges ==
    \/ insts = << >> /\ Constructs(MainThread, RangesConstructArgs)
    \/ RangesStep(MainThread)

SpecRanges == Init /\ [][NextRanges]_vars

\* A program whose main thread constructs one downloader of two planned
\* steps and whose threads then each make one download() call with the
\* default naming, against an archive that has every index at the time of
\* the HEAD probes; an index GET may fail in urlopen, and a fetch that fails
\* fails in conn.request.
IdxFetchConstructArgs == { << "0.5", Some(MaxHorizon), Some(3) >> }

IdxFetchStep(t) ==
    \/ \E s \in 1..Len(insts) : DownloadCall(t, s, None, None, None, AllThere(s))
    \/ ExistsProbe(t)
    \/ ExistsAll(t)
    \/ LoopNext(t)
    \/ \E o \in IdxOutcomes : GetIdxData(t, o, PlainIndex)
    \/ FuncCall(t)
    \/ \E o \in {"ok", "request"} : FuncEnd(t, o)
    \/ InnerReturn(t)
    \/ ExceptLoad(t)
    \/ ExceptStore(t)
    \/ ExceptTest(t)
    \/ ExceptRaise(t)

NextIdxFetch ==
    \/ insts = << >> /\ Constructs(MainThread, IdxFetchConstructArgs)
    \/ \E t \in Threads : IdxFetchStep(t)

SpecIdxFetch == Init /\ [][NextIdxFetch]_vars

\* A sequential program that constructs downloaders of two planned steps
\* and downloaders with a horizon below step 0, and calls exists() and
\* download() on them. A second downloader of a resolution draws from the
\* exhausted schedule, so it has no steps either.
EmptyPlanConstructArgs == { << "0.5", Some(MaxHorizon), Some(3) >>,
                            << "1", Some(-1), None >> }

NextEmptyPlan ==
    \/ Constructs(MainThread, EmptyPlanConstructArgs)
    \/ Step(MainThread)

SpecEmptyPlan == Init /\ [][NextEmptyPlan]_vars

\* A program that only constructs downloaders, for every resolution, with
\* and without a horizon and a minimum step.
PlanHorizons == {None, Some(MaxHorizon), Some(126)}
PlanMinSteps == {None, Some(6)}
PlanArgs == VALID_RESOLUTIONS \X PlanHorizons \X PlanMinSteps

NextPlan == Constructs(MainThread, PlanArgs)

SpecPlan == Init /\ [][NextPlan]_vars

\* A test bench in the manner of IdxFieldTestCase: it builds an IdxField
\* from a line and prints it, with the __str__ of either module of the
\* repository that defines IdxField.
Lines ==
    { ordinal \o << ":" >> \o offset \o << ":" >> \o reftime \o << ":" >> \o rest :
          ordinal \in OrdinalTexts, offset \in OffsetTexts,
          reftime \in ReftimeTexts, rest \in RestTexts }

Modules == {"gribgrab/gribgrab.py", "gribgrab.py"}

\* idx = IdxField(line)
NewIdxField(line) ==
    LET made == IdxField__init__(line)
    IN  /\ last' = [op |-> "IdxField", by |-> "", arg |-> line,
                    exc |-> made.exc, out |-> made.val]
        /\ UNCHANGED << STEPS, insts, attempts_remaining, files, call, planned, prev_fetch, idx_collection >>

\* str(idx) of the IdxField just built, by the __str__ of one of the modules.
CallStr(module) ==
    /\ last.op = "IdxField"
    /\ last.exc = "none"
    /\ last' = [op |-> "str", by |-> module, arg |-> last.arg, exc |-> "none",
                out |-> IF module = "gribgrab.py"
                        THEN IdxField__str__module(last.out[1])
                        ELSE IdxField__str__(last.out[1])]
    /\ UNCHANGED << STEPS, insts, attempts_remaining, files, call, planned, prev_fetch, idx_collection >>

NextParse ==
    \/ \E line \in Lines : NewIdxField(line)
    \/ \E module \in Modules : CallStr(module)

SpecParse == Init /\ [][NextParse]_vars

\* A test bench in the manner of IdxCollectionTestCase: it adds IdxFields
\* built from lines to one IdxCollection and calls byterange() and filter()
\* on it.
CollectionLines == { Line_GUST, Line_MSLET, Line_PRES, Line_PRES_at_2, Line_UGRD }

\* idx_collection.add_idx(IdxField(line))
AddIdx(line) ==
    /\ Len(idx_collection.idx_to_i) < MaxAdds
    /\ LET idx == IdxField__init__(line).val[1]
       IN  /\ idx_collection' = add_idx(idx_collection, idx)
           /\ last' = [op |-> "add_idx", by |-> "", arg |-> idx,
                       exc |-> "none", out |-> << >>]
    /\ UNCHANGED << STEPS, insts, attempts_remaining, files, call, planned, prev_fetch >>

\* idx_collection.byterange(idx) for the IdxField of the j-th add_idx call.
CallByterange(j) ==
    /\ j \in 1..Len(idx_collection.idx_to_i)
    /\ LET idx == idx_collection.idx_to_i[j][1]
       IN  last' = [op |-> "byterange", by |-> "", arg |-> idx, exc |-> "none",
                    out |-> byterange(idx_collection, idx)]
    /\ UNCHANGED << STEPS, insts, attempts_remaining, files, call, planned, prev_fetch, idx_collection >>

\* idx_collection.filter(regex)
CallFilter(regex) ==
    /\ last' = [op |-> "filter", by |-> "", arg |-> regex, exc |-> "none",
                out |-> filter(idx_collection, regex)]
    /\ UNCHANGED << STEPS, insts, attempts_remaining, files, call, planned, prev_fetch, idx_collection >>

NextIdx ==
    \/ \E line \in CollectionLines : AddIdx(line)
    \/ \E j \in 1..MaxAdds : CallByterange(j)
    \/ \E regex \in Patterns : CallFilter(regex)

SpecIdx == Init /\ [][NextIdx]_vars

\* ------------------------------------------------------------------ claims
\* The calls that are download() calls, and what they planned.
InDownload(t) == call[t].op = "download"
NPlanned(t) == Len(Self(t).idx_files)

\* The content of local file `name` in file system fs ('' when it is absent).
Content(fs, name) == IF name \in DOMAIN fs THEN fs[name] ELSE << >>

\* The body of the step at list position j of thread t's downloader.
StepBody(t, j) == Body(url_path(Self(t).grib_files[j]))

\* The local file the call of thread t uses for list position j.
StepFile(t, j) ==
    LocalFilename(Self(t), j, call[t].filename, call[t].file_template)

\* The bodies of positions 1..upto that go to local file `name`, in list order.
BodiesFor(t, name, upto) ==
    LET js == SelectSeq([j \in 1..upto |-> j], LAMBDA j : StepFile(t, j) = name)
    IN  [m \in 1..Len(js) |-> StepBody(t, js[m])]

\* Thread t is inside a _get_file call (the wrapper `inner` is running).
FetchPcs == {"inner", "func", "succeeded", "except", "store", "test", "giveup"}
InFetch(t) == call[t].pc \in FetchPcs

\* C1: in a sequential program every _get_file call runs the wrapped fetch
\* between 1 and 5 times: it returns at the first run that succeeds, which
\* at the latest is the 5th after 4 failures; it raises only after 5 failed
\* runs, and there is no 6th run.
C1_RetryUpToFive ==
    \A t \in Threads :
        LET c == call[t]
        IN  /\ c.tries <= 5
            /\ c.pc = "inner" => c.fails <= 4
            /\ c.pc = "succeeded" => c.fails <= 4 /\ c.tries = c.fails + 1
            /\ c.pc = "giveup" => c.fails = 5
            /\ c.gf = "returned" => c.tries \in 1..5 /\ c.fails = c.tries - 1
            /\ c.gf = "raised" => c.tries = 5 /\ c.fails = 5

\* C1 witness: a _get_file call has returned at its 5th run, after 4 failures.
C1_Witness ==
    \E t \in Threads : call[t].gf = "returned" /\ call[t].fails = 4
                       /\ call[t].tries = 5

\* C2: whenever no _get_file call is in progress the remaining-attempts
\* counter is 5, and every _get_file call is entered with the counter at 5,
\* whatever the previous call did.
C2_BudgetPerCall ==
    /\ (\A t \in Threads : ~ InFetch(t)) => attempts_remaining = 5
    /\ \A t \in Threads :
          (call[t].pc = "inner" /\ call[t].tries = 0) => attempts_remaining = 5

\* C2 witness: a _get_file call is entered, in a later download(), after the
\* previous _get_file call used up its budget and raised.
C2_Witness ==
    \E t \in Threads : /\ call[t].pc = "inner" /\ call[t].tries = 0
                       /\ prev_fetch = "raised"
                       /\ attempts_remaining = 5

\* C3 (as claimed): every downloader's step list is the complete schedule of
\* its resolution filtered by its own min_step and horizon.
C3_FreshSchedule ==
    \A n \in 1..Len(insts) :
        insts[n].steps =
            horizon_filter(min_step_filter(STEPS_items(insts[n].resolution),
                                           insts[n].min_step),
                           insts[n].horizon)

\* C4 (as claimed): a download() given both filename and file_template
\* issues no request and writes nothing, and ends with the configuration
\* error (ValueError).
C4_ConflictBeforeNetwork ==
    \A t \in Threads :
        LET c == call[t]
        IN  (InDownload(t) /\ c.filename # None /\ c.file_template # None
             /\ c.concurrent = None) =>
                /\ c.nHead = 0 /\ c.nIdxGet = 0 /\ c.got = {}
                /\ files = c.pre
                /\ c.pc = "done" => c.result = "ValueError"

\* C5: once a HEAD probe of a download() has answered with a status other
\* than 200, the call has ended with DataNotAvailableError, has issued no
\* index GET and no data GET, and has left the file system as it found it.
C5_NotAvailableNoTransfer ==
    \A t \in Threads :
        LET c == call[t]
        IN  (InDownload(t) /\ \E j \in 1..c.nHead : c.head[j] # 200) =>
                /\ c.pc = "done"
                /\ c.result = "DataNotAvailableError"
                /\ c.nIdxGet = 0
                /\ c.got = {}
                /\ files = c.pre

\* C5 witness: a download() over at least two planned steps ended with
\* DataNotAvailableError at its last probe, with files on disk from before.
C5_Witness ==
    \E t \in Threads :
        /\ InDownload(t)
        /\ call[t].result = "DataNotAvailableError"
        /\ NPlanned(t) >= 2
        /\ call[t].nHead = NPlanned(t)
        /\ DOMAIN files # {}

\* C6: what exists() returns is whether every planned index URL answers
\* 200: false as soon as one of them, anywhere in the list, does not.
C6_ExistsAllOrNothing ==
    \A t \in Threads :
        LET c == call[t]
        IN  c.exists_value # None =>
                c.exists_value[1] = (\A j \in 1..NPlanned(t) : c.head[j] = 200)

\* C6 witness: exists() returned False over at least three planned indexes
\* of which only the last is unreachable.
C6_Witness ==
    \E t \in Threads :
        LET c == call[t]
        IN  /\ c.op = "exists"
            /\ c.result = "False"
            /\ NPlanned(t) >= 3
            /\ \A j \in 1..NPlanned(t) : (c.head[j] = 200) <=> (j < NPlanned(t))

\* C7 (as claimed): a download() called with a file_template and
\* concurrent=N ends normally with every planned step's body in the file
\* the template names for it.
C7_ConcurrentMode ==
    \A t \in Threads :
        LET c == call[t]
        IN  (InDownload(t) /\ c.file_template # None /\ c.filename = None
             /\ c.concurrent # None /\ c.pc = "done") =>
                /\ c.result = "returned"
                /\ \A j \in 1..NPlanned(t) :
                      Content(files, StepFile(t, j)) =
                          Content(c.pre, StepFile(t, j))
                              \o BodiesFor(t, StepFile(t, j), NPlanned(t))

\* C8 (as claimed): also when _get_file calls overlap, each call runs the
\* wrapped fetch at most 5 times and raises only after 5 failures of its own.
C8_OverlapKeepsBudget ==
    \A t \in Threads :
        /\ call[t].tries <= 5
        /\ call[t].gf = "raised" => call[t].fails = 5

\* C9: a download() with a merged filename that returns has appended to
\* that file the bodies of all planned steps, each once, in ascending step
\* order, after what the file held before the call.
C9_MergedInStepOrder ==
    \A t \in Threads :
        LET c == call[t]
        IN  (InDownload(t) /\ c.filename # None /\ c.file_template = None
             /\ c.result = "returned") =>
                /\ \A j \in 1..(NPlanned(t) - 1) :
                      Self(t).steps[j] < Self(t).steps[j + 1]
                /\ Content(files, c.filename[1]) =
                      Content(c.pre, c.filename[1])
                          \o [j \in 1..NPlanned(t) |-> StepBody(t, j)]

\* C9 witness: such a download() over at least two steps has returned, its
\* last fetch after a failed attempt, the file holding bodies from before.
C9_Witness ==
    \E t \in Threads :
        LET c == call[t]
        IN  /\ InDownload(t) /\ c.filename # None /\ c.file_template = None
            /\ c.result = "returned"
            /\ NPlanned(t) >= 2
            /\ c.fails > 0
            /\ Content(c.pre, c.filename[1]) # << >>

\* C10 (as claimed): when a step's fetch has failed 5 times and download()
\* has ended, every other planned step has been fetched and its body
\* written.
C10_OtherStepsStillFetched ==
    \A t \in Threads :
        LET c == call[t]
        IN  (InDownload(t) /\ c.gf = "raised" /\ c.pc = "done") =>
                \A j \in 1..NPlanned(t) :
                    j # c.i =>
                        /\ j \in c.got
                        /\ Content(files, StepFile(t, j)) =
                              Content(c.pre, StepFile(t, j))
                                  \o BodiesFor(t, StepFile(t, j), NPlanned(t))

\* C10 (amended): when a step's fetch has failed 5 times the exception ends
\* download() at that step: the bodies of the earlier steps stay in their
\* files, nothing is written for the failed step, and no later step is
\* fetched or written.
C10_FailureEndsDownload ==
    \A t \in Threads :
        LET c == call[t]
        IN  (InDownload(t) /\ c.gf = "raised") =>
                /\ c.pc = "done"
                /\ c.result = "FetchError"
                /\ c.fails = 5
                /\ c.got = 1..c.i
                /\ c.nIdxGet = c.i
                /\ \A name \in DOMAIN files \cup DOMAIN c.pre :
                      Content(files, name) =
                          Content(c.pre, name) \o BodiesFor(t, name, c.i - 1)
                /\ DOMAIN files \subseteq
                      DOMAIN c.pre \cup {StepFile(t, j) : j \in 1..c.i}

\* C10 witness: a download() ended by the failure of a step that has both
\* earlier and later planned steps.
C10_Witness ==
    \E t \in Threads :
        /\ InDownload(t)
        /\ call[t].result = "FetchError"
        /\ call[t].i > 1
        /\ call[t].i < NPlanned(t)

\* ------------------------------------------------- claims on the index
\* The records an IdxCollection holds: the values of its i_to_idx.
Held(c) == { c.i_to_idx[j][2] : j \in 1..Len(c.i_to_idx) }

\* The IdxField objects given to add_idx so far, and their ordinals, in the
\* order of the calls.
Added(c) == [j \in 1..Len(c.idx_to_i) |-> c.idx_to_i[j][1]]
OrdinalsAdded(c) == { c.idx_to_i[j][2] : j \in 1..Len(c.idx_to_i) }

\* The record added last with ordinal o.
Latest(c, o) ==
    Added(c)[CHOOSE j \in 1..Len(c.idx_to_i) :
                /\ c.idx_to_i[j][2] = o
                /\ \A m \in (j + 1)..Len(c.idx_to_i) : c.idx_to_i[m][2] # o]

\* The collection holds exactly the ordinals and offsets of the test index.
HoldsTestIndex(c) ==
    { << r.index, r.bytes_start >> : r \in Held(c) }
        = { << 1, 0 >>, << 2, 73573 >>, << 3, 263118 >> }

\* C12: byterange(r) of a record r the collection holds is
\* (r.bytes_start, s.bytes_start - 1) when the collection holds a record s
\* with ordinal r.index + 1 and (r.bytes_start, '') when it holds none,
\* whatever else it holds; ordinals 1, 2, 3 at offsets 0, 73573, 263118
\* give (0, 73572), (73573, 263117) and (263118, '').
C12_ByterangeBySuccessor ==
    (last.op = "byterange" /\ last.arg \in Held(idx_collection)) =>
        LET r == last.arg
            successors == { s \in Held(idx_collection) : s.index = r.index + 1 }
        IN  /\ last.out[1] = r.bytes_start
            /\ \A s \in successors : last.out[2] = << s.bytes_start - 1 >>
            /\ successors = {} => last.out[2] = OpenEnd
            /\ HoldsTestIndex(idx_collection) =>
                  /\ r.index = 1 => last.out = << 0, << 73572 >> >>
                  /\ r.index = 2 => last.out = << 73573, << 263117 >> >>
                  /\ r.index = 3 => last.out = << 263118, OpenEnd >>

\* C12 witness: byterange() of the record with ordinal 2 of the test index,
\* added after the record with ordinal 3.
C12_Witness ==
    /\ last.op = "byterange"
    /\ HoldsTestIndex(idx_collection)
    /\ last.arg.index = 2
    /\ idx_collection.i_to_idx[1][1] = 3

\* s contains w; s starts with w.
Contains(s, w) == \E p \in 0..(Len(s) - Len(w)) : SubSeq(s, p + 1, p + Len(w)) = w
StartsWith(s, w) == Len(s) >= Len(w) /\ SubSeq(s, 1, Len(w)) = w

\* What a pattern asks of a text without newlines when it is matched from
\* the start of the text.
Asks(regex, s) ==
    CASE regex = ".*PRES.*" -> Contains(s, Word_PRES)
      [] regex \in {".*(PRES|GUST)+:.*", ".*(GUST|PRES)+:.*"} ->
            Contains(s, Word_PRES \o << ":" >>) \/ Contains(s, Word_GUST \o << ":" >>)
      [] regex = "PRES" -> StartsWith(s, Word_PRES)

\* The records were added in ascending order of ordinal.
AddedAscending(c) ==
    \A j \in 1..(Len(c.idx_to_i) - 1) : c.idx_to_i[j][2] <= c.idx_to_i[j + 1][2]

\* C13: filter(pattern) returns exactly the records held whose canonical
\* text matches the pattern from the start of the text, each once; when the
\* records were added in ascending ordinal order the result ascends in
\* ordinal, whatever the order of the alternatives in the pattern; over the
\* test index '.*PRES.*' gives [PRES] and '.*(PRES|GUST)+:.*' [GUST, PRES].
C13_FilterMatchesInOrder ==
    last.op = "filter" =>
        LET out == last.out
            wanted == { r \in Held(idx_collection) :
                           Asks(last.arg, IdxField__str__(r)) }
        IN  /\ { out[j] : j \in 1..Len(out) } = wanted
            /\ Len(out) = Cardinality(wanted)
            /\ AddedAscending(idx_collection) =>
                  \A j \in 1..(Len(out) - 1) : out[j].index < out[j + 1].index
            /\ last.arg = ".*(PRES|GUST)+:.*" =>
                  out = filter(idx_collection, ".*(GUST|PRES)+:.*")
            /\ (HoldsTestIndex(idx_collection) /\ AddedAscending(idx_collection)) =>
                  /\ last.arg = ".*PRES.*" =>
                        [j \in 1..Len(out) |-> out[j].varname] = << Word_PRES >>
                  /\ last.arg = ".*(PRES|GUST)+:.*" =>
                        [j \in 1..Len(out) |-> out[j].varname]
                            = << Word_GUST, Word_PRES >>

\* C13 witness: '.*(PRES|GUST)+:.*' over the test index, added in ascending
\* order, returned two records.
C13_Witness ==
    /\ last.op = "filter"
    /\ last.arg = ".*(PRES|GUST)+:.*"
    /\ HoldsTestIndex(idx_collection)
    /\ AddedAscending(idx_collection)
    /\ Len(last.out) = 2

\* C17: after any sequence of add_idx calls i_to_idx has one entry for each
\* ordinal added, the record added last with that ordinal; no add_idx call
\* raises; filter returns only such latest records and the end byterange
\* returns comes from the latest record with the next ordinal.
C17_LastWriteWins ==
    LET c == idx_collection
    IN  /\ { c.i_to_idx[j][1] : j \in 1..Len(c.i_to_idx) } = OrdinalsAdded(c)
        /\ Len(c.i_to_idx) = Cardinality(OrdinalsAdded(c))
        /\ \A j \in 1..Len(c.i_to_idx) :
              c.i_to_idx[j][2] = Latest(c, c.i_to_idx[j][1])
        /\ last.op = "add_idx" => last.exc = "none"
        /\ last.op = "filter" =>
              \A j \in 1..Len(last.out) :
                  last.out[j] = Latest(c, last.out[j].index)
        /\ last.op = "byterange" =>
              IF last.arg.index + 1 \in OrdinalsAdded(c)
              THEN last.out[2] = << Latest(c, last.arg.index + 1).bytes_start - 1 >>
              ELSE last.out[2] = OpenEnd

\* C17 witness: byterange() of the record with ordinal 1 after two different
\* records were added with ordinal 2.
C17_Witness ==
    /\ last.op = "byterange"
    /\ last.arg.index = 1
    /\ \E j, m \in 1..Len(idx_collection.idx_to_i) :
          /\ j < m
          /\ idx_collection.idx_to_i[j][2] = 2
          /\ idx_collection.idx_to_i[m][2] = 2
          /\ Added(idx_collection)[j].bytes_start
                # Added(idx_collection)[m].bytes_start

\* A line of the documented shape
\* 'ordinal:byte_offset:d=YYYYMMDDHH:VARNAME:level text:interval text:':
\* six fields, each closed by a colon, the first two written in digits, the
\* third 'd=' and ten digits that are a date and an hour.
WellFormedLine(line) ==
    LET p == split(line, ":")
    IN  /\ Len(p) = 7
        /\ p[7] = << >>
        /\ p[1] # << >> /\ AllDigits(p[1])
        /\ p[2] # << >> /\ AllDigits(p[2])
        /\ Len(p[3]) = 12
        /\ SubSeq(p[3], 1, 2) = << "d", "=" >>
        /\ AllDigits(SubSeq(p[3], 3, 12))
        /\ strptime(SubSeq(p[3], 3, 12)).exc = "none"

\* C15 (as claimed): str(IdxField(line)) of a well-formed line is the line,
\* closing colon included.
C15_RoundTrip ==
    (last.op = "str" /\ WellFormedLine(last.arg)) => last.out = last.arg

\* ----------------------------------------------- claims on the ranges
\* The fields of a line: the pieces that are closed by a colon, and what
\* follows the last colon when that is not empty.
FieldCount(line) ==
    LET p == split(strip(line), ":")
    IN  IF p[Len(p)] = << >> THEN Len(p) - 1 ELSE Len(p)

\* A line with fewer than six fields, or with an ordinal, offset or
\* reference time that IdxField() does not parse.
Malformed(line) ==
    FieldCount(line) < 6 \/ IdxField__init__(line).exc # "none"

\* C16 (as claimed): when the index a step of download() got has a
\* malformed line, download() has ended at that step with the parse error,
\* has issued no ranged GET for the step and has written nothing for it.
C16_MalformedLineIsFatal ==
    \A t \in Threads :
        LET c == call[t]
        IN  (InDownload(t) /\ c.served # 0
             /\ \E j \in 1..Len(Indexes[c.served]) :
                   Malformed(Indexes[c.served][j])) =>
                /\ c.pc = "done"
                /\ c.result \in {"ValueError", "IndexError"}
                /\ c.i \notin c.got
                /\ Content(files, c._filename) =
                      Content(c.pre, c._filename)
                          \o BodiesFor(t, c._filename, c.i - 1)

\* The lists of a list, one after the other.
RECURSIVE Flatten(_)
Flatten(lists) ==
    IF lists = << >> THEN << >> ELSE Head(lists) \o Flatten(Tail(lists))

\* 'start-end' of a record of collection c, 'start-' when c holds no record
\* with the next ordinal.
RangeText(c, r) ==
    Digits(r.bytes_start) \o << "-" >>
        \o (IF \E s \in Held(c) : s.index = r.index + 1
            THEN Digits((CHOOSE s \in Held(c) : s.index = r.index + 1).bytes_start - 1)
            ELSE << >>)

\* The Range value the claim describes for index k and a list of patterns:
\* the ranges of the matches of each pattern, pattern after pattern.
ClaimedRange(k, regexes) ==
    LET c == _get_idx_data(Indexes[k]).val[1]
        matches == Flatten([n \in 1..Len(regexes) |-> filter(c, regexes[n])])
    IN  << "b", "y", "t", "e", "s", "=" >>
            \o join(",", [n \in 1..Len(matches) |-> RangeText(c, matches[n])])

\* The GET requests the claim describes for the step thread t is at.
ClaimedRequests(t) ==
    { << url_path(Self(t).grib_files[call[t].i]),
         ClaimedRange(call[t].served, Self(t).regexes) >> }

\* C11 (as claimed): a step of download() issues one ranged GET, to the
\* step's data URL and with the Range value built from the matches.
C11_OneRangedGetPerStep ==
    \A t \in Threads :
        LET c == call[t]
        IN  (InDownload(t) /\ InFetch(t)) =>
                /\ c.tries <= 1
                /\ c.sent \subseteq ClaimedRequests(t)

\* C11 (amended): every attempt of a step's fetch issues one GET, to the
\* step's data URL and with the same Range value: 'bytes=' and the comma-
\* joined 'start-end' ('start-' when open) of the matches of each pattern
\* in the order the patterns were added, a record once for every pattern
\* that matches it. A step whose first attempt succeeds issues exactly one
\* GET, a step that needs retries one per attempt, at most 5.
C11_RangeOfEveryGet ==
    \A t \in Threads :
        LET c == call[t]
        IN  (InDownload(t) /\ InFetch(t)) =>
                /\ c.tries <= 5
                /\ c.tries = 0 => c.sent = {}
                /\ c.tries > 0 => c.sent = ClaimedRequests(t)
                /\ c.pc = "succeeded" => c.tries = c.fails + 1
                /\ c.byte_header = ClaimedRange(c.served, Self(t).regexes)

\* C11 witness: the fetch of a step has succeeded at its second attempt;
\* two patterns both match the PRES record, the last of the index, so its
\* open range is in the Range value twice.
C11_Witness ==
    \E t \in Threads :
        LET c == call[t]
        IN  /\ InDownload(t)
            /\ c.pc = "succeeded"
            /\ c.tries = 2
            /\ Self(t).regexes = << ".*PRES.*", ".*(PRES|GUST)+:.*" >>
            /\ c.served = PlainIndex
            /\ c.byte_header =
                  << "b", "y", "t", "e", "s", "=",
                     "2", "6", "3", "1", "1", "8", "-", ",",
                     "0", "-", "7", "3", "5", "7", "2", ",",
                     "2", "6", "3", "1", "1", "8", "-" >>

\* ------------------------------------------------- claims on the planner
\* The step number a data file name ends in (the digits after '.f').
StepOfName(name) ==
    Value(SubSeq(name, (CHOOSE j \in 1..Len(name) : name[j] = ".f") + 1, Len(name)))

\* The base schedules: hourly to 120 h at 0.25 degree, every 3 hours to
\* 240 h (every resolution), every 12 hours from 252 h to 384 h.
InBaseSchedule(resolution, i) ==
    \/ resolution = "0.25" /\ i \in 0..120
    \/ i \in 0..240 /\ i % 3 = 0
    \/ i \in 252..384 /\ i % 12 = 0

\* C14: the step list of every downloader constructed is strictly
\* ascending, holds only steps of the base schedule of its resolution, none
\* above the horizon when one is set, none that the minimum step does not
\* divide when one is set; grib_files and idx_files are as long as the step
\* list, entry i is the name built from step i, and idx_files[i] is
\* grib_files[i] + '.idx'.
C14_PlanWellFormed ==
    \A n \in 1..Len(insts) :
        LET d == insts[n]
        IN  /\ \A j \in 1..(Len(d.steps) - 1) : d.steps[j] < d.steps[j + 1]
            /\ \A j \in 1..Len(d.steps) :
                  /\ InBaseSchedule(d.resolution, d.steps[j])
                  /\ d.horizon # None => d.steps[j] <= d.horizon[1]
                  /\ d.min_step # None => d.steps[j] % d.min_step[1] = 0
            /\ Len(d.grib_files) = Len(d.steps)
            /\ Len(d.idx_files) = Len(d.steps)
            /\ \A j \in 1..Len(d.steps) :
                  /\ StepOfName(d.grib_files[j]) = d.steps[j]
                  /\ _gribfile_to_step(d, d.grib_files[j]) = d.steps[j]
                  /\ d.idx_files[j] = d.grib_files[j] \o << ".idx" >>

\* C14 witness: a 0.25 degree downloader with horizon 126 and minimum step
\* 6, whose list runs from 0 to 126, and one without horizon and minimum
\* step whose list is the whole base schedule of its resolution.
C14_Witness ==
    /\ \E n \in 1..Len(insts) :
          /\ insts[n].resolution = "0.25"
          /\ insts[n].horizon = Some(126)
          /\ insts[n].min_step = Some(6)
          /\ insts[n].steps[1] = 0
          /\ insts[n].steps[Len(insts[n].steps)] = 126
    /\ \E n \in 1..Len(insts) :
          /\ insts[n].horizon = None
          /\ insts[n].min_step = None
          /\ insts[n].steps = STEPS_items(insts[n].resolution)

\* ------------------------------------------- claims on order and output
\* C18: within one download() every probe has been answered before the
\* first index GET goes out; index GETs go out in list order; the ranged
\* GET of a step goes out only after its index GET; and when the index GET
\* of a step goes out, the ranged GETs of all earlier steps have been made
\* and their bodies written, so that at most one step (the latest whose
\* index was fetched) is ever unfinished.
C18_SequentialInStepOrder ==
    \A t \in Threads :
        LET c == call[t]
            n == c.nIdxGet
        IN  (InDownload(t) /\ c.concurrent = None) =>
                /\ n <= NPlanned(t)
                /\ n > 0 => /\ c.nHead = NPlanned(t)
                            /\ \A j \in 1..NPlanned(t) : c.head[j] = 200
                /\ c.got \subseteq 1..n
                /\ 1..(n - 1) \subseteq c.got
                /\ \A name \in DOMAIN files \cup DOMAIN c.pre :
                      \/ Content(files, name) =
                            Content(c.pre, name) \o BodiesFor(t, name, n - 1)
                      \/ Content(files, name) =
                            Content(c.pre, name) \o BodiesFor(t, name, n)
                /\ c.pc \in {"loop", "get_idx"} =>
                      /\ n = c.i - 1
                      /\ c.got = 1..n
                      /\ \A name \in DOMAIN files \cup DOMAIN c.pre :
                            Content(files, name) =
                                Content(c.pre, name) \o BodiesFor(t, name, n)

\* C18 witness: the index of the third step is about to be fetched; the
\* first two steps went to files of their own, the second after a retry.
C18_Witness ==
    \E t \in Threads :
        LET c == call[t]
        IN  /\ InDownload(t)
            /\ c.pc = "get_idx"
            /\ c.i = 3
            /\ c.fails > 0
            /\ StepFile(t, 1) # StepFile(t, 2)
            /\ Content(files, StepFile(t, 2)) # << >>

\* a is a prefix of b.
IsPrefix(a, b) == Len(a) <= Len(b) /\ SubSeq(b, 1, Len(a)) = a

\* C19: during and after every call, whatever the naming and however the
\* call ends, every file that was there when the call started is still
\* there and what it held then is a prefix of what it holds now; a
\* download() that returns has appended to every destination exactly the
\* bodies of its steps, so a second identical run leaves them there twice.
C19_AppendOnly ==
    \A t \in Threads :
        LET c == call[t]
        IN  /\ c.op # "none" =>
                  \A name \in DOMAIN c.pre :
                      /\ name \in DOMAIN files
                      /\ IsPrefix(c.pre[name], files[name])
            /\ (InDownload(t) /\ c.result = "returned") =>
                  \A j \in 1..NPlanned(t) :
                      Content(files, StepFile(t, j)) =
                          Content(c.pre, StepFile(t, j))
                              \o BodiesFor(t, StepFile(t, j), NPlanned(t))

\* C19 witness: a download() over two steps has returned for the second
\* time: every destination held the bodies of its steps once before the
\* call and holds them twice now.
C19_Witness ==
    \E t \in Threads :
        LET c == call[t]
        IN  /\ InDownload(t)
            /\ c.result = "returned"
            /\ NPlanned(t) >= 2
            /\ \A j \in 1..NPlanned(t) :
                  LET bodies == BodiesFor(t, StepFile(t, j), NPlanned(t))
                  IN  /\ Content(c.pre, StepFile(t, j)) = bodies
                      /\ Content(files, StepFile(t, j)) = bodies \o bodies

\* C20: while a _get_file call retries, and after it has raised (which it
\* does only after 5 failures), the destination holds what it held when the
\* call began; once an attempt has read the whole response, and after the
\* call has returned, it holds that and the body of the step, once.
C20_RetriesWriteOnce ==
    \A t \in Threads :
        LET c == call[t]
            name == c._filename
            upto(m) == Content(c.pre, name) \o BodiesFor(t, name, m)
        IN  InDownload(t) =>
                /\ (InFetch(t) /\ c.pc # "succeeded") =>
                      Content(files, name) = upto(c.i - 1)
                /\ c.pc = "succeeded" =>
                      Content(files, name) = Append(upto(c.i - 1), StepBody(t, c.i))
                /\ (c.gf = "returned" /\ (c.pc = "loop" \/ c.result = "returned")) =>
                      Content(files, name) = Append(upto(c.i - 2), StepBody(t, c.i - 1))
                /\ c.gf = "raised" =>
                      /\ c.fails = 5
                      /\ Content(files, name) = upto(c.i - 1)

\* C20 witness: a fetch has succeeded at its 5th attempt into a file that
\* held bodies before the call; the file has gained the body once.
C20_Witness ==
    \E t \in Threads :
        LET c == call[t]
        IN  /\ InDownload(t)
            /\ c.pc = "succeeded"
            /\ c.fails = 4
            /\ Content(c.pre, c._filename) # << >>
            /\ Len(Content(files, c._filename))
                  = Len(Content(c.pre, c._filename)) + Len(BodiesFor(t, c._filename, c.i))

\* ------------------------------------------ claims on the index fetch
\* The index GETs a download() has issued when it is at position i of its
\* list: one for every earlier position, and one for position i once
\* _get_idx_data has been called there.
IdxGetsDue(c) ==
    CASE c.pc = "exists" -> 0
      [] c.pc \in {"loop", "get_idx"} -> c.i - 1
      [] c.pc \in FetchPcs -> c.i
      [] c.pc = "done" ->
            IF c.result = "returned" THEN c.i - 1
            ELSE IF c.result \in {"FetchError", "URLError"} THEN c.i
            ELSE 0

\* Thread t takes a step out of the _get_idx_data call of its download().
LeavesIdxFetch(t) == call[t].pc = "get_idx" /\ call'[t] # call[t]

\* C21: in download() the index of every step reached is fetched once, also
\* when the step's data fetch is retried, and a download() that returns has
\* fetched the index of every planned step; a transport failure of the
\* index fetch ends download() with that failure at its first occurrence,
\* before any data GET of the step; and the index fetch, failed or not,
\* leaves the remaining-attempts counter of the data fetch as it is.
C21_IndexFetchNotRetried ==
    /\ [](\A t \in Threads :
            LET c == call[t]
            IN  InDownload(t) =>
                   /\ c.nIdxGet = IdxGetsDue(c)
                   /\ c.result = "returned" => c.nIdxGet = NPlanned(t)
                   /\ c.result = "URLError" =>
                         /\ c.pc = "done"
                         /\ c.i \notin c.got
                         /\ c.got = 1..(c.i - 1))
    /\ [][\A t \in Threads :
            LeavesIdxFetch(t) =>
               /\ attempts_remaining' = attempts_remaining
               /\ call'[t].nIdxGet = call[t].nIdxGet + 1
               /\ call'[t].pc \in {"inner", "done"}
               /\ call'[t].pc = "done" => call'[t].result = "URLError"]_vars

\* C21 witness: a download() was ended by the failure of the index fetch of
\* its second step, after a retried data fetch of its first step, while the
\* data fetch of another thread had used up part of the budget.
C21_Witness ==
    \E t, u \in Threads :
        /\ InDownload(t)
        /\ call[t].result = "URLError"
        /\ call[t].i = 2
        /\ call[t].fails > 0
        /\ call[t].nIdxGet = 2
        /\ InFetch(u)
        /\ attempts_remaining < _attempts

\* ------------------------------------------------ claims on empty plans
\* Thread t is in a call, which its signature accepted, on a downloader
\* whose step list is empty.
OnEmptyPlan(t) ==
    /\ call[t].op # "none"
    /\ call[t].concurrent = None
    /\ Self(t).steps = << >>

\* The call of thread t has issued no request and written no file.
NoTraffic(t) ==
    /\ call[t].nHead = 0
    /\ call[t].nIdxGet = 0
    /\ call[t].got = {}
    /\ files = call[t].pre

\* C22 (as claimed): on a downloader whose step list is empty exists()
\* returns True without a probe, and download() returns normally having
\* issued no GET and written no file.
C22_EmptyPlanReturns ==
    \A t \in Threads :
        OnEmptyPlan(t) =>
            /\ NoTraffic(t)
            /\ call[t].pc = "done" =>
                  call[t].result = IF InDownload(t) THEN "returned" ELSE "True"

\* C22 (amended): on a downloader whose step list is empty, because its
\* horizon is below step 0 or because its schedule had been drawn before,
\* exists() returns True without a probe, and download() issues no request
\* and writes no file; it returns normally, as a successful download does,
\* unless it was given both filename and file_template, and then it raises
\* ValueError after its existence check passed.
C22_EmptyPlanSucceeds ==
    \A t \in Threads :
        LET c == call[t]
        IN  OnEmptyPlan(t) =>
               /\ Self(t).idx_files = << >>
               /\ NoTraffic(t)
               /\ c.pc = "done" =>
                     /\ c.exists_value = Some(TRUE)
                     /\ c.result =
                           IF ~ InDownload(t) THEN "True"
                           ELSE IF NamingConflict(c.filename, c.file_template)
                           THEN "ValueError"
                           ELSE "returned"

\* C22 witness: download(filename=...) has returned on a downloader built
\* with a horizon below step 0, with a file on disk from an earlier
\* download().
C22_Witness ==
    \E t \in Threads :
        /\ InDownload(t)
        /\ OnEmptyPlan(t)
        /\ Self(t).horizon = Some(-1)
        /\ call[t].filename # None
        /\ call[t].result = "returned"
        /\ DOMAIN files # {}
=============================================================================
